---- MODULE Spec2Model ----
(***************************************************************************)
(* Model of app.py of the legal query assistant: the FAQ context builder,  *)
(* the guard ladder and prompt construction of generate_legal_answer, the  *)
(* completion client call, and the Streamlit chat loop over the session    *)
(* message list.                                                           *)
(*                                                                         *)
(* Text is modelled by TLA+ strings, character by character: At(s, i) is   *)
(* the i-th character, and strip, lower, "in", startswith/endswith and     *)
(* re.match are computed on the characters.  The source's one non-ASCII    *)
(* character (the typographic apostrophe of a FAQ question) is written as  *)
(* the ASCII apostrophe.                                                   *)
(***************************************************************************)
EXTENDS Integers, Sequences, FiniteSets, TLC

VARIABLES
    messages,      \* st.session_state.messages: sequence of [role, content]
    pc,            \* where the running script (or the unit call) stands
    last,          \* what the last completed step was
    domain,        \* the sidebar selection used by the current turn
    user_input,    \* the question of the current turn
    calls,         \* client.chat.completions.create calls made in this turn
    request,       \* <<>> or <<the keyword arguments of the last create call>>
    answer,        \* <<>> or <<the value generate_legal_answer returned>>
    afterClear,    \* the current turn is the first one after a "Clear conversation"
    faq_context    \* <<>> or <<the value build_faq_context returned>>

vars == <<messages, pc, last, domain, user_input, calls, request, answer,
          afterClear, faq_context>>

(***************************************************************************)
(* Python str operations, on characters.                                   *)
(***************************************************************************)
At(s, i) == SubSeq(s, i, i)

Whitespace == {" ", "\t", "\n", "\r", "\f"}

\* str.strip(): drop leading and trailing whitespace
Strip(s) ==
    LET keep == {i \in 1..Len(s) : At(s, i) \notin Whitespace}
    IN  IF keep = {} THEN ""
        ELSE LET lo == CHOOSE i \in keep : \A j \in keep : i <= j
                 hi == CHOOSE i \in keep : \A j \in keep : j <= i
             IN  SubSeq(s, lo, hi)

UpperCase == "ABCDEFGHIJKLMNOPQRSTUVWXYZ"
LowerCase == "abcdefghijklmnopqrstuvwxyz"
Digits == "0123456789"

LowerChar(c) ==
    LET hit == {i \in 1..Len(UpperCase) : At(UpperCase, i) = c}
    IN  IF hit = {} THEN c ELSE At(LowerCase, CHOOSE i \in hit : TRUE)

RECURSIVE LowerFrom(_, _)
LowerFrom(s, i) ==
    IF i > Len(s) THEN "" ELSE LowerChar(At(s, i)) \o LowerFrom(s, i + 1)

\* str.lower()
Lower(s) == LowerFrom(s, 1)

\* k in s
Contains(s, k) ==
    \E i \in 1..(Len(s) - Len(k) + 1) : SubSeq(s, i, i + Len(k) - 1) = k

StartsWith(s, p) == Len(p) <= Len(s) /\ SubSeq(s, 1, Len(p)) = p

EndsWith(s, p) == Len(p) <= Len(s) /\ SubSeq(s, Len(s) - Len(p) + 1, Len(s)) = p

\* \w of the re module, on ASCII
IsWordChar(c) ==
    \/ \E i \in 1..Len(LowerCase) : At(LowerCase, i) = c
    \/ \E i \in 1..Len(UpperCase) : At(UpperCase, i) = c
    \/ \E i \in 1..Len(Digits) : At(Digits, i) = c
    \/ c = "_"

\* re.match(r"\b" + phrase + r"\b", s) for a phrase of literal characters that
\* begins and ends with a word character: the phrase at position 0 (where the
\* leading \b holds), then the end of s or a non-word character.
re_match(phrase, s) ==
    /\ StartsWith(s, phrase)
    /\ \/ Len(s) = Len(phrase)
       \/ ~IsWordChar(At(s, Len(phrase) + 1))

RECURSIVE Join(_, _)
\* sep.join(lines)
Join(lines, sep) ==
    IF lines = <<>> THEN ""
    ELSE IF Len(lines) = 1 THEN lines[1]
    ELSE lines[1] \o sep \o Join(Tail(lines), sep)

Some(x) == <<x>>
None == <<>>

(***************************************************************************)
(* FAQ data and the FAQ context builder.                                   *)
(***************************************************************************)
FAQ_DATA ==
    [d \in {"Consumer Rights", "Employment Law", "Cyber Law", "Civil Matters"} |->
        CASE d = "Consumer Rights" -> <<
                [question |-> "What can I do if a product I bought is defective and the seller refuses to replace it?",
                 answer |-> "Generally, consumers can raise a complaint with the seller, escalate to the company, and, if unresolved, approach a consumer dispute redressal forum or similar authority. Keep all bills and written communication as proof."],
                [question |-> "Can a shop refuse to give me a bill?",
                 answer |-> "In many jurisdictions, sellers are expected or required to provide an invoice or bill. A bill is useful as proof of purchase in case of disputes or warranty claims."] >>
          [] d = "Employment Law" -> <<
                [question |-> "Can my employer fire me without notice?",
                 answer |-> "In many places, termination rules depend on the employment contract and local labour laws. Often there are notice-period requirements, but there can be exceptions such as misconduct or probation periods."],
                [question |-> "Am I entitled to overtime pay?",
                 answer |-> "Eligibility for overtime pay depends on local labour laws and the type of employment. Some workers are entitled to extra pay for hours beyond the standard work week."] >>
          [] d = "Cyber Law" -> <<
                [question |-> "What should I do if someone is harassing me online?",
                 answer |-> "You can collect evidence (screenshots, messages), block or report the account on the platform, and in serious cases consider filing a complaint with cybercrime authorities or the police."],
                [question |-> "Is it legal to share someone's private chat screenshots publicly?",
                 answer |-> "Sharing private communications without consent may violate privacy laws, platform policies, or defamation laws, depending on what is shared and local regulations."] >>
          [] d = "Civil Matters" -> <<
                [question |-> "What is a civil case?",
                 answer |-> "A civil case usually involves disputes between individuals or organizations about rights, money, property, or contracts rather than crimes."],
                [question |-> "How long do civil cases typically take?",
                 answer |-> "Civil cases can take months or years depending on complexity, court workload, and procedural steps. Timelines vary widely by country and court."] >>]

\* FAQ_DATA.get(domain, [])
FaqsOf(d) == IF d \in DOMAIN FAQ_DATA THEN FAQ_DATA[d] ELSE <<>>

RECURSIVE FaqLines_AnswerFirst(_, _)
\* variant: each item's answer line is appended before its question line
FaqLines_AnswerFirst(faqs, i) ==
    IF i > Len(faqs) THEN <<>>
    ELSE << "  A: " \o faqs[i].answer, "- Q: " \o faqs[i].question >>
         \o FaqLines_AnswerFirst(faqs, i + 1)

RECURSIVE FaqLines(_, _)
\* the two lines the loop appends for each item, from item i on
FaqLines(faqs, i) ==
    IF i > Len(faqs) THEN <<>>
    ELSE << "- Q: " \o faqs[i].question, "  A: " \o faqs[i].answer >>
         \o FaqLines(faqs, i + 1)

build_faq_context(d) ==
    LET faqs == FaqsOf(d)
    IN  IF faqs = <<>> THEN ""
        ELSE Join(<< "Example FAQs and generic answers for " \o d \o ":" >>
                  \o FaqLines(faqs, 1), "\n")

(***************************************************************************)
(* Prompts.                                                                *)
(***************************************************************************)
SYSTEM_PROMPT ==
    "\n"
    \o "You are a Legal Information Assistant.\n"
    \o "\n"
    \o "STRICT RULES (follow all):\n"
    \o "\n"
    \o "1. Answer ONLY the exact question asked by the user.\n"
    \o "2. If the question is vague, incomplete, or lacks necessary facts:\n"
    \o "   - DO NOT provide a legal answer.\n"
    \o "   - ONLY ask the user to clarify what information is missing.\n"
    \o "3. DO NOT assume facts that the user has not stated.\n"
    \o "4. DO NOT guess jurisdiction, country, or specific laws.\n"
    \o "5. If the selected legal domain does not match the question, clearly point it out.\n"
    \o "6. Provide ONLY general legal information, never legal advice.\n"
    \o "7. Do NOT add extra explanations unless explicitly asked.\n"
    \o "8. Use simple, non-technical language.\n"
    \o "\n"
    \o "If information is insufficient, say:\n"
    \o "\"It is not possible to provide an answer without more details.\"\n"
    \o "\n"

\* USER_TEMPLATE.format(domain=d, question=q)
USER_TEMPLATE(d, q) ==
    "\n"
    \o "User selected legal domain: " \o d \o "\n"
    \o "\n"
    \o "User question:\n"
    \o "\"" \o q \o "\"\n"
    \o "\n"
    \o "TASK:\n"
    \o "1. First, briefly restate the user's question in one sentence.\n"
    \o "2. Answer ONLY that question.\n"
    \o "3. Use simple, non-technical language.\n"
    \o "4. If the question lacks required information, clearly state what is missing.\n"
    \o "5. If the domain selection appears incorrect, mention it.\n"
    \o "6. Do NOT include unrelated legal explanations.\n"
    \o "7. End with:\n"

(***************************************************************************)
(* domain_seems_mismatched and the hard stops of generate_legal_answer.    *)
(***************************************************************************)
employment_keywords == <<"job", "company", "employer", "salary", "fired", "terminated">>
consumer_keywords == <<"product", "order", "refund", "seller", "online", "damaged">>

\* any(k in q for k in keywords)
AnyIn(keywords, q) == \E i \in 1..Len(keywords) : Contains(q, keywords[i])

\* variant: the keywords are looked up in the question as typed
domain_seems_mismatched_CaseSensitive(d, question) ==
    IF d = "Consumer Rights" /\ AnyIn(employment_keywords, question) THEN TRUE
    ELSE IF d = "Employment Law" /\ AnyIn(consumer_keywords, question) THEN TRUE
    ELSE FALSE

domain_seems_mismatched(d, question) ==
    LET q == Lower(question)
    IN  IF d = "Consumer Rights" /\ AnyIn(employment_keywords, q) THEN TRUE
        ELSE IF d = "Employment Law" /\ AnyIn(consumer_keywords, q) THEN TRUE
        ELSE FALSE

\* the phrases of generic_patterns; each is wrapped in \b ... \b
generic_patterns ==
    << "can i take legal action",
       "what are my rights",
       "is this legal",
       "can i sue",
       "legal action" >>

normalized_question(question) == Lower(Strip(question))

Disclaimer ==
    "This is general legal information, not legal advice. "
    \o "Please consult a qualified lawyer for your specific situation."

TooGeneralMessage ==
    "This question is too general to answer.\n\n"
    \o "Please describe what happened, who was involved, and what issue you are facing "
    \o "so that general legal information can be shared.\n\n"
    \o "This is general legal information, not legal advice. "
    \o "Please consult a qualified lawyer for your specific situation."

ClearerQuestionMessage == "Please provide a clearer legal question with more details."

MismatchMessage(d) ==
    "The selected domain is '" \o d \o "', but the question appears to relate to a different "
    \o "area of law.\n\n"
    \o "Please select the correct legal domain or clarify your question.\n\n"
    \o "This is general legal information, not legal advice."

MinQuestionLen == 8

\* variant: the length is taken before trimming
TooShort_Untrimmed(question) == question = "" \/ Len(question) < MinQuestionLen

\* not question or len(question.strip()) < 8
TooShort(question) == question = "" \/ Len(Strip(question)) < MinQuestionLen

RECURSIVE VagueStop(_, _)

\* The for loop over generic_patterns from pattern i on: each iteration tests
\* its pattern and then the length; None when the loop ends without a return.
VagueStop(question, i) ==
    IF i > Len(generic_patterns) THEN None
    ELSE IF re_match(generic_patterns[i], normalized_question(question))
         THEN Some(TooGeneralMessage)
    ELSE IF TooShort(question) THEN Some(ClearerQuestionMessage)
    ELSE VagueStop(question, i + 1)

\* variant: the domain check runs before the vague-question check
HardStops_MismatchFirst(d, question) ==
    IF domain_seems_mismatched(d, question) THEN Some(MismatchMessage(d))
    ELSE VagueStop(question, 1)

\* The returns of generate_legal_answer that precede the client call:
\* Some(text) when one of them is taken, None when the call is reached.
HardStops(d, question) ==
    LET vague == VagueStop(question, 1)
    IN  IF vague # None THEN vague
        ELSE IF domain_seems_mismatched(d, question) THEN Some(MismatchMessage(d))
        ELSE None

alignment_instruction(d) ==
    "\n"
    \o "IMPORTANT INSTRUCTIONS:\n"
    \o "- Answer ONLY the user's exact question.\n"
    \o "- Do NOT add unrelated legal information.\n"
    \o "- Do NOT assume missing facts.\n"
    \o "- If the selected domain (" \o d \o ") does not match the question, clearly say so.\n"
    \o "- If the information provided is insufficient, explicitly say that.\n"
    \o "- Use simple, non-technical language.\n"

user_prompt(d, question) == USER_TEMPLATE(d, question)

final_prompt(d, question) == alignment_instruction(d) \o "\n\n" \o user_prompt(d, question)

\* the keyword arguments of client.chat.completions.create
CreateArgs(d, question) ==
    [model |-> "llama-3.1-8b-instant",
     messages |-> << [role |-> "system", content |-> SYSTEM_PROMPT],
                     [role |-> "user", content |-> final_prompt(d, question)] >>,
     temperature |-> "0.1",
     max_tokens |-> 500]

\* variant: the stripped model output is returned as it is
final_answer_RawOnly(content) == Strip(content)

\* raw_answer = content.strip(); final_answer = raw_answer + "\n\n" + disclaimer
final_answer(content) == Strip(content) \o "\n\n" \o Disclaimer

(***************************************************************************)
(* Inputs.                                                                 *)
(***************************************************************************)
\* the options of the sidebar selectbox
Domains ==
    {"Consumer Rights", "Employment Law", "Cyber Law", "Civil Matters", "General / Not Sure"}

\* texts the completion service may return as the first choice's content
RawAnswers ==
    {"", "  It depends on the terms of your contract.\n\n", "Keep the bill as proof."}

MaxTurns == 2
MaxPad == 1

RECURSIVE Pad(_)
\* n whitespace characters
Pad(n) == IF n = 0 THEN "" ELSE (IF n % 2 = 1 THEN " " ELSE "\n") \o Pad(n - 1)

\* questions typed into the chat input during a session
ChatQuestions ==
    {"Can I sue?",
     "fired",
     "My employer fired me yesterday",
     "How long do civil cases take?"}

\* sidebar selections made during a session
ChatDomains == {"Consumer Rights", "Employment Law", "General / Not Sure"}

\* domain arguments of the direct calls: the selectbox options and a label
\* that is no key of FAQ_DATA and no option
CallDomains == Domains \cup {"Tax Law"}

QuestionCores ==
    {"", "fired", "Fired!", "1234567", "12345678",
     "can i sue", "Can I Sue?", "can i sued him", "Is this legal?",
     "is this legally binding", "What are my rights", "Legal action now",
     "Can I take legal action against my employer?", "Can I sue my employer",
     "I wonder, can I sue", "My employer fired me yesterday",
     "I was FIRED yesterday", "my job", "The seller sent a damaged product",
     "How long do civil cases take?"}

\* question arguments of the direct calls: a core between whitespace paddings
CallQuestions ==
    {Pad(a) \o c \o Pad(b) : a \in 0..MaxPad, b \in 0..MaxPad, c \in QuestionCores}

(***************************************************************************)
(* The chat loop: one script run per user action.                          *)
(***************************************************************************)
UserMessage(text) == [role |-> "user", content |-> text]
AssistantMessage(text) == [role |-> "assistant", content |-> text]

\* user messages in the session list: the turns taken since it was last empty
Turns == Cardinality({i \in DOMAIN messages : messages[i].role = "user"})

Init ==
    /\ messages = <<>>
    /\ pc = "idle"
    /\ last = "init"
    /\ domain = "Consumer Rights"
    /\ user_input = ""
    /\ calls = 0
    /\ request = None
    /\ answer = None
    /\ afterClear = FALSE
    /\ faq_context = None

\* A question is submitted while domain d is selected: the user message is
\* appended and generate_legal_answer runs up to a hard-stop return (the
\* assistant message is appended and the run ends) or up to the client call
\* (the run blocks in it).
Submit(d, q) ==
    /\ pc = "idle"
    /\ q # ""
    /\ Turns < MaxTurns
    /\ domain' = d
    /\ user_input' = q
    /\ afterClear' = (last = "clear")
    /\ LET stop == HardStops(d, q)
           withUser == Append(messages, UserMessage(q))
       IN  IF stop # None
           THEN /\ answer' = stop
                /\ messages' = Append(withUser, AssistantMessage(stop[1]))
                /\ calls' = 0
                /\ request' = None
                /\ pc' = "idle"
                /\ last' = "guarded"
           ELSE /\ answer' = None
                /\ messages' = withUser
                /\ calls' = 1
                /\ request' = Some(CreateArgs(d, q))
                /\ pc' = "calling"
                /\ last' = "called"
    /\ UNCHANGED faq_context

\* variant: the assistant message is appended twice
Respond_AppendsTwice(content) ==
    /\ pc = "calling"
    /\ answer' = Some(final_answer(content))
    /\ messages' = messages \o << AssistantMessage(final_answer(content)),
                                  AssistantMessage(final_answer(content)) >>
    /\ pc' = "idle"
    /\ last' = "answered"
    /\ UNCHANGED <<domain, user_input, calls, request, afterClear, faq_context>>

\* The client call returns a completion whose first choice has this content:
\* generate_legal_answer returns final_answer, the assistant message is appended.
Respond(content) ==
    /\ pc = "calling"
    /\ answer' = Some(final_answer(content))
    /\ messages' = Append(messages, AssistantMessage(final_answer(content)))
    /\ pc' = "idle"
    /\ last' = "answered"
    /\ UNCHANGED <<domain, user_input, calls, request, afterClear, faq_context>>

\* variant: the failed call is made again
Fail_Retries ==
    /\ pc = "calling"
    /\ calls' = calls + 1
    /\ last' = "failed"
    /\ UNCHANGED <<messages, pc, domain, user_input, request, answer,
                   afterClear, faq_context>>

\* variant: the failure is caught and stored as the assistant's message
Fail_StoresError ==
    /\ pc = "calling"
    /\ pc' = "idle"
    /\ last' = "failed"
    /\ messages' = Append(messages, AssistantMessage("Something went wrong."))
    /\ UNCHANGED <<domain, user_input, calls, request, answer, afterClear,
                   faq_context>>

\* The client call raises: nothing catches it, the script run ends there.
Fail ==
    /\ pc = "calling"
    /\ pc' = "idle"
    /\ last' = "failed"
    /\ UNCHANGED <<messages, domain, user_input, calls, request, answer,
                   afterClear, faq_context>>

\* variant: the button reruns the script without emptying the list
Clear_KeepsMessages ==
    /\ pc = "idle"
    /\ pc' = "idle"
    /\ user_input' = ""
    /\ calls' = 0
    /\ request' = None
    /\ answer' = None
    /\ last' = "clear"
    /\ afterClear' = FALSE
    /\ UNCHANGED <<messages, domain, faq_context>>

\* The "Clear conversation" button: a run without chat input that empties the
\* list and reruns.
Clear ==
    /\ pc = "idle"
    /\ pc' = "idle"
    /\ messages' = <<>>
    /\ user_input' = ""
    /\ calls' = 0
    /\ request' = None
    /\ answer' = None
    /\ last' = "clear"
    /\ afterClear' = FALSE
    /\ UNCHANGED <<domain, faq_context>>

Next ==
    \/ \E d \in ChatDomains, q \in ChatQuestions : Submit(d, q)
    \/ \E content \in RawAnswers : Respond(content)
    \/ Fail
    \/ Clear

Spec == Init /\ [][Next]_vars

(***************************************************************************)
(* Direct calls of generate_legal_answer and build_faq_context on drawn    *)
(* arguments, with the client's outcome chosen by the environment.         *)
(***************************************************************************)
InitCall ==
    /\ messages = <<>>
    /\ pc = "start"
    /\ last = "init"
    /\ domain \in CallDomains
    /\ user_input \in CallQuestions
    /\ calls = 0
    /\ request = None
    /\ answer = None
    /\ afterClear = FALSE
    /\ faq_context = None

\* generate_legal_answer(domain, user_input) up to a return or the client call
CallGenerate ==
    /\ pc = "start"
    /\ LET stop == HardStops(domain, user_input)
       IN  IF stop # None
           THEN /\ answer' = stop
                /\ calls' = 0
                /\ request' = None
                /\ pc' = "returned"
                /\ last' = "guarded"
           ELSE /\ answer' = None
                /\ calls' = 1
                /\ request' = Some(CreateArgs(domain, user_input))
                /\ pc' = "calling"
                /\ last' = "called"
    /\ UNCHANGED <<messages, domain, user_input, afterClear, faq_context>>

ClientReturns(content) ==
    /\ pc = "calling"
    /\ answer' = Some(final_answer(content))
    /\ pc' = "returned"
    /\ last' = "answered"
    /\ UNCHANGED <<messages, domain, user_input, calls, request, afterClear,
                   faq_context>>

ClientRaises ==
    /\ pc = "calling"
    /\ pc' = "raised"
    /\ last' = "failed"
    /\ UNCHANGED <<messages, domain, user_input, calls, request, answer,
                   afterClear, faq_context>>

\* build_faq_context(domain)
CallBuildFaq ==
    /\ faq_context = None
    /\ faq_context' = Some(build_faq_context(domain))
    /\ UNCHANGED <<messages, pc, last, domain, user_input, calls, request,
                   answer, afterClear>>

NextCall ==
    \/ CallGenerate
    \/ \E content \in RawAnswers : ClientReturns(content)
    \/ ClientRaises
    \/ CallBuildFaq

SpecCall == InitCall /\ [][NextCall]_vars

(***************************************************************************)
(* Properties.                                                             *)
(***************************************************************************)
\* the question, trimmed and lower-cased, matches one of the generic patterns
MatchesGeneric(q) ==
    \E i \in 1..Len(generic_patterns) : re_match(generic_patterns[i], Lower(Strip(q)))

MentionsFiredOrEmployer(q) ==
    Contains(Lower(q), "fired") \/ Contains(Lower(q), "employer")

Last(seq) == seq[Len(seq)]

\* C1: for every domain, a question that matches a generic pattern after
\* trimming and lower-casing makes generate_legal_answer return the fixed
\* clarification message, and the completion client is not called.
C1_GenericGuard ==
    (pc # "start" /\ MatchesGeneric(user_input)) =>
        /\ pc = "returned"
        /\ answer = Some(TooGeneralMessage)
        /\ calls = 0
        /\ request = None

\* a padded, mixed-case generic question that also carries an employment
\* keyword under "Consumer Rights" got the clarification message
C1_Witness ==
    /\ pc = "returned"
    /\ domain = "Consumer Rights"
    /\ user_input = " Can I sue my employer"
    /\ MatchesGeneric(user_input)
    /\ domain_seems_mismatched(domain, user_input)
    /\ answer = Some(TooGeneralMessage)
    /\ calls = 0

\* C2 as stated: under "Consumer Rights" every question containing "fired" or
\* "employer", whatever its length and whatever else it contains, gets the
\* domain-mismatch message and no client call.
C2_AsStated ==
    (pc # "start" /\ domain = "Consumer Rights" /\ MentionsFiredOrEmployer(user_input)) =>
        /\ answer = Some(MismatchMessage("Consumer Rights"))
        /\ calls = 0

\* C2 amended: under "Consumer Rights" a question containing "fired" or
\* "employer" in any letter case, of at least 8 characters after trimming and
\* not matching a generic pattern, gets the domain-mismatch message naming
\* 'Consumer Rights', and the client is not called; with or without these two
\* conditions the client is not called.
C2_MismatchGuard ==
    (pc # "start" /\ domain = "Consumer Rights" /\ MentionsFiredOrEmployer(user_input)) =>
        /\ pc = "returned"
        /\ calls = 0
        /\ request = None
        /\ (Len(Strip(user_input)) >= MinQuestionLen /\ ~MatchesGeneric(user_input)) =>
                /\ answer = Some(MismatchMessage("Consumer Rights"))
                /\ Contains(answer[1], "'Consumer Rights'")

C2_Witness ==
    /\ pc = "returned"
    /\ domain = "Consumer Rights"
    /\ user_input = "I was FIRED yesterday"
    /\ answer = Some(MismatchMessage("Consumer Rights"))
    /\ calls = 0

\* C3 as stated: a question shorter than 8 characters after trimming gets the
\* same clarification message as a generic question, without a client call.
C3_AsStated ==
    (pc # "start" /\ Len(Strip(user_input)) < MinQuestionLen) =>
        /\ answer = Some(TooGeneralMessage)
        /\ calls = 0

\* C3 amended: a question shorter than 8 characters after trimming (the empty
\* question included) makes generate_legal_answer return the fixed message
\* "Please provide a clearer legal question with more details.", which is not
\* the generic-question message, and the client is not called.
C3_ShortGuard ==
    (pc # "start" /\ Len(Strip(user_input)) < MinQuestionLen) =>
        /\ pc = "returned"
        /\ answer = Some(ClearerQuestionMessage)
        /\ answer # Some(TooGeneralMessage)
        /\ calls = 0
        /\ request = None

\* a question of 9 characters, 7 after trimming, was stopped as too short
C3_Witness ==
    /\ pc = "returned"
    /\ user_input = " 1234567 "
    /\ answer = Some(ClearerQuestionMessage)
    /\ calls = 0

\* the assistant messages the hard stops produce without the full disclaimer
IsStopWithoutDisclaimer(text) ==
    \/ text = ClearerQuestionMessage
    \/ \E d \in Domains : text = MismatchMessage(d)

\* C4: the value generate_legal_answer returns after a successful client call
\* ends with the fixed disclaimer sentence, for every raw output, and so does
\* the assistant message stored for that turn.
C4_Disclaimer ==
    /\ last = "answered" =>
            /\ answer # None
            /\ EndsWith(answer[1], Disclaimer)
            /\ messages # <<>>
            /\ Last(messages) = AssistantMessage(answer[1])
    /\ \A i \in DOMAIN messages :
            (messages[i].role = "assistant" /\ ~IsStopWithoutDisclaimer(messages[i].content))
                => EndsWith(messages[i].content, Disclaimer)

\* an empty raw output was answered and stored
C4_Witness ==
    /\ last = "answered"
    /\ answer = Some("\n\n" \o Disclaimer)
    /\ Last(messages) = AssistantMessage("\n\n" \o Disclaimer)

\* the request a session without history sends for this domain and question
FreshSessionRequest(d, q) ==
    [model |-> "llama-3.1-8b-instant",
     messages |-> << [role |-> "system", content |-> SYSTEM_PROMPT],
                     [role |-> "user",
                      content |-> alignment_instruction(d) \o "\n\n" \o USER_TEMPLATE(d, q)] >>,
     temperature |-> "0.1",
     max_tokens |-> 500]

\* C5: after "Clear conversation" the message list is empty, and the turn
\* that follows starts from no history: its list holds that turn alone and
\* the request it sends is the one a fresh session sends.
C5_ClearResets ==
    /\ last = "clear" => (messages = <<>> /\ pc = "idle")
    /\ afterClear =>
            /\ Turns = 1
            /\ messages[1] = UserMessage(user_input)
            /\ Len(messages) <= 2
            /\ request # None => request = Some(FreshSessionRequest(domain, user_input))

\* the first turn after a clear is waiting for the client
C5_Witness ==
    /\ afterClear
    /\ last = "called"
    /\ messages = << UserMessage(user_input) >>
    /\ request = Some(FreshSessionRequest(domain, user_input))

C6_Shape ==
    /\ messages # <<>> => messages[1].role = "user"
    /\ \A i \in DOMAIN messages :
            messages[i].role = "assistant" =>
                /\ i > 1
                /\ messages[i - 1].role = "user"

\* how one step may change the list: not at all, emptied, or extended at the
\* end by this turn's user message, by its answer, or by both
C6_Step ==
    \/ messages' = messages
    \/ messages' = <<>>
    \/ messages' = Append(messages, UserMessage(user_input'))
    \/ /\ answer' # None
       /\ messages' = messages \o << UserMessage(user_input'), AssistantMessage(answer'[1]) >>
    \/ /\ answer' # None
       /\ messages # <<>>
       /\ Last(messages) = UserMessage(user_input)
       /\ user_input' = user_input
       /\ messages' = Append(messages, AssistantMessage(answer'[1]))

\* C6: the list grows only at its end, in turn order; it never starts with an
\* assistant message nor holds two adjacent ones; an assistant message is the
\* value generate_legal_answer returned for the user message right before it.
C6_Order == []C6_Shape /\ [][C6_Step]_vars

\* a guarded turn followed by an answered turn
C6_Witness ==
    /\ Len(messages) = 4
    /\ messages[1].role = "user"
    /\ messages[2] = AssistantMessage(TooGeneralMessage)
    /\ messages[3] = UserMessage(user_input)
    /\ messages[4].role = "assistant"
    /\ last = "answered"

\* C7 as stated: the user message of the two-message request embeds the
\* domain, the FAQ context build_faq_context returns for it, and the question.
C7_PromptEmbedsFaq ==
    request # None =>
        LET sent == request[1].messages
        IN  /\ Len(sent) = 2
            /\ sent[1].role = "system"
            /\ sent[2].role = "user"
            /\ Contains(sent[2].content, domain)
            /\ Contains(sent[2].content, user_input)
            /\ build_faq_context(domain) # "" =>
                    Contains(sent[2].content, build_faq_context(domain))

\* first position from `from` on where k occurs in s, 0 when there is none
Find(s, k, from) ==
    LET hits == {i \in from..(Len(s) - Len(k) + 1) : SubSeq(s, i, i + Len(k) - 1) = k}
    IN  IF hits = {} THEN 0 ELSE CHOOSE i \in hits : \A j \in hits : i <= j

RegisteredTexts(faqs) ==
    {faqs[i].question : i \in DOMAIN faqs} \cup {faqs[i].answer : i \in DOMAIN faqs}

RECURSIVE PairsInOrder(_, _, _, _)
\* from position `from` on, text holds question i, then its answer with no
\* other registered text in between, then the later pairs in the same way
PairsInOrder(text, faqs, i, from) ==
    IF i > Len(faqs) THEN TRUE
    ELSE LET qAt == Find(text, faqs[i].question, from)
             aAt == IF qAt = 0 THEN 0
                    ELSE Find(text, faqs[i].answer, qAt + Len(faqs[i].question))
         IN  /\ qAt > 0
             /\ aAt > 0
             /\ \A t \in RegisteredTexts(faqs) :
                    ~Contains(SubSeq(text, qAt + Len(faqs[i].question), aAt - 1), t)
             /\ PairsInOrder(text, faqs, i + 1, aAt + Len(faqs[i].answer))

\* C8: for a key of FAQ_DATA the context holds every registered pair, each
\* question directly followed by its answer, in registration order; for any
\* other domain it is the empty text.
C8_FaqContext ==
    faq_context # None =>
        IF domain \in DOMAIN FAQ_DATA /\ FAQ_DATA[domain] # <<>>
        THEN PairsInOrder(faq_context[1], FAQ_DATA[domain], 1, 1)
        ELSE faq_context[1] = ""

C8_Witness ==
    /\ faq_context # None
    /\ domain = "Cyber Law"
    /\ Len(FAQ_DATA[domain]) = 2
    /\ Find(faq_context[1], FAQ_DATA[domain][2].answer, 1) > 0

\* C9 as stated: every finished turn made exactly one client call.
C9_AsStated ==
    (pc = "idle" /\ last \in {"guarded", "answered", "failed"}) => calls = 1

\* C9 amended: a turn makes at most one client call: none when a hard stop
\* answers it, exactly one otherwise, also when that call fails.
C9_AtMostOneCall ==
    /\ calls \in {0, 1}
    /\ last \in {"init", "clear", "guarded"} => calls = 0
    /\ last \in {"called", "answered", "failed"} => calls = 1

\* a second turn of the session was answered by its single call
C9_Witness ==
    /\ Turns = 2
    /\ last = "answered"
    /\ calls = 1

C10_FailStep ==
    (pc = "calling" /\ last' = "failed") =>
        /\ messages' = messages
        /\ messages # <<>>
        /\ Last(messages) = UserMessage(user_input)
        /\ answer' = None
        /\ calls' = 1
        /\ pc' = "idle"

\* C10: a failing client call leaves no answer and no assistant message, is
\* not retried, keeps the list as it was with the turn's user message last,
\* and leaves the script idle, where the next turn is accepted.
C10_FailurePropagates ==
    /\ [][C10_FailStep]_vars
    /\ [](last = "failed" =>
            /\ pc = "idle"
            /\ answer = None
            /\ calls = 1
            /\ Last(messages) = UserMessage(user_input))

\* a turn was answered right after a turn whose call failed
C10_Witness ==
    /\ Len(messages) = 3
    /\ messages[1].role = "user"
    /\ messages[2] = UserMessage(user_input)
    /\ messages[3].role = "assistant"
    /\ last = "answered"

====
